---- MODULE Spec2Model ----
(***************************************************************************)
(* The calendar booking agent: the LangGraph workflow of backend/agent.py  *)
(* (call_model -> should_continue -> call_tool -> call_model ...) driven   *)
(* by the /chat endpoint of backend/main.py.                               *)
(*                                                                         *)
(* main.py:22 names backend.agent.app as the graph the endpoint drives     *)
(* (the echo graph of main.py:26-42 only stands in for it), so the model   *)
(* composes chat_endpoint with the workflow of agent.py:127-147.  That     *)
(* workflow is compiled without a checkpointer (agent.py:147), so every    *)
(* request starts the graph from the input {"messages": [HumanMessage]}.   *)
(*                                                                         *)
(* The reasoning oracle (llm, agent.py:67) and the calendar service are    *)
(* external: their answers are inputs, drawn from small sets.              *)
(***************************************************************************)
EXTENDS Integers, Sequences, FiniteSets, TLC

\* ---------------------------------------------------------------- bounds
MaxTurns == 2          \* requests served by the endpoint
MaxDecide == 3         \* call_model invocations in one turn
MaxToolCalls == 2      \* tool calls the oracle requests in one turn
MaxId == 2             \* distinct tool_call ids the oracle uses
MaxRequests == 2       \* /chat requests in SpecThreads

\* ------------------------------------------------------------- vocabulary
Ids == 1..MaxId
NoId == 0

\* tools = [check_availability, book_meeting, get_current_datetime]
tools == {"check_availability", "book_meeting", "get_current_datetime"}
\* a name the oracle may produce that no tool carries (spec scenario C)
UnknownNames == {"delete_event"}
ActionNames == tools \cup UnknownNames

Texts == {"", "Yes, you're free then!"}
UserTexts == {"check if 10-11am tomorrow is free"}

None == "None"
\* no response has been given to the caller yet
NoResponse == [kind |-> "none", text |-> ""]

\* result texts of backend/tools.py and of the executor
FREE_TEXT == "The calendar is free during this time."
BUSY_TEXT == "The calendar is busy during the following times: ... Please suggest a different time."
CHECK_ERROR_CALENDARS == "An error occurred while checking availability: <HttpError ... /calendars/primary ...>"
CHECK_ERROR_FREEBUSY == "An error occurred while checking availability: <HttpError ... /freeBusy ...>"
EVENT_CREATED == "Event created: <htmlLink>"
CREATE_ERROR == "An error occurred while creating the event: <HttpError ...>"
NOW_TEXT == "<datetime.now().isoformat()>"
INVALID_TOOL_MSG == "<name> is not a valid tool, try one of [check_availability, book_meeting, get_current_datetime]."

\* ------------------------------------------------------------- messages
HumanMessage(c) ==
  [type |-> "human", content |-> c, has_tool_calls |-> FALSE,
   tool_calls |-> <<>>, tool_call_id |-> NoId]

\* additional_kwargs is modelled by has_tool_calls (the key "tool_calls" is
\* present) and tool_calls (its value, a list of {id, function.name})
AIMessage(c, present, calls) ==
  [type |-> "ai", content |-> c, has_tool_calls |-> present,
   tool_calls |-> calls, tool_call_id |-> NoId]

json_dumps(result) == <<"json", result>>

ToolMessage(id, c) ==
  [type |-> "tool", content |-> c, has_tool_calls |-> FALSE,
   tool_calls |-> <<>>, tool_call_id |-> id]

\* the batches an oracle reply can carry: ids are unique within one reply
Batches(k) ==
  {b \in UNION {[1..n -> [id : Ids, name : ActionNames]] : n \in 0..k} :
     \A i, j \in DOMAIN b : i # j => b[i].id # b[j].id}

\* --------------------------------------------------- tools (tools.py)
Returned(v) == [raised |-> FALSE, value |-> v]
Raised(e) == [raised |-> TRUE, value |-> e]

\* what the environment does to one tool invocation: the fault it injects
\* and, for the free/busy query, whether the calendar has busy slots
CheckFaults == {"none", "HttpError_calendars", "HttpError_freebusy",
                "ValueError_fromisoformat", "CredentialsError"}
CreateFaults == {"none", "HttpError", "CredentialsError"}

check_calendar_availability(fault, busy) ==
  CASE fault = "none" -> Returned(IF busy THEN BUSY_TEXT ELSE FREE_TEXT)
    [] fault = "HttpError_calendars" -> Returned(CHECK_ERROR_CALENDARS)
    [] fault = "HttpError_freebusy" -> Returned(CHECK_ERROR_FREEBUSY)
    [] OTHER -> Raised(fault)

create_google_calendar_event(fault) ==
  CASE fault = "none" -> Returned(EVENT_CREATED)
    [] fault = "HttpError" -> Returned(CREATE_ERROR)
    [] OTHER -> Raised(fault)

get_current_datetime == Returned(NOW_TEXT)

\* the environments one invocation of the named action can meet
Envs(name) ==
  CASE name = "check_availability" -> [fault : CheckFaults, busy : BOOLEAN]
    [] name = "book_meeting" -> [fault : CreateFaults, busy : {FALSE}]
    [] OTHER -> [fault : {"none"}, busy : {FALSE}]

\* tool_executor.invoke (langgraph.prebuilt.ToolExecutor over tools): a name
\* outside the tool map yields the invalid-tool message instead of raising; a
\* registered tool is run, and what it raises passes through.
tool_executor_invoke(name, env) ==
  IF name \notin tools THEN Returned(INVALID_TOOL_MSG)
  ELSE CASE name = "check_availability" ->
              check_calendar_availability(env.fault, env.busy)
         [] name = "book_meeting" -> create_google_calendar_event(env.fault)
         [] OTHER -> get_current_datetime

\* 'free' in result.lower()
HasFree(result) ==
  result \in {FREE_TEXT, CHECK_ERROR_FREEBUSY}

\* ------------------------------------------------------------------ state
VARIABLES
  messages,               \* AgentState.messages of the running graph
  action_needed,          \* AgentState.action_needed
  calendar_check_result,  \* AgentState.calendar_check_result
  pc,                     \* where the turn is: idle, call_model, call_tool, END, raised
  exception,              \* the exception that left the graph, or None
  response,               \* what chat_endpoint gave the caller, or NoResponse
  turns,                  \* requests started
  nDecide,                \* call_model invocations of this turn
  nToolCalls,             \* tool calls requested in this turn
  nodes,                  \* the nodes run in this turn, in order
  dispatched,             \* the tool invocations of this turn: <<message index, position>>
  pair,                   \* SpecPair: two runs of the graph on the same answers
  store,                  \* SpecThreads: the checkpointer, thread_id -> saved messages
  reqs                    \* SpecThreads: the /chat requests and where each stands

agentVars == <<messages, action_needed, calendar_check_result, pc, exception,
               response, turns, nDecide, nToolCalls, nodes, dispatched>>

vars == <<agentVars, pair, store, reqs>>

\* the AgentState the nodes of the running graph are handed
AgentState ==
  [messages |-> messages, action_needed |-> action_needed,
   calendar_check_result |-> calendar_check_result]

\* operator_add as a channel without reducer: the update replaces the value
operator_replace(old, new) == new

\* messages: Annotated[list[BaseMessage], operator.add]
operator_add(old, new) == old \o new

Last(s) == s[Len(s)]

\* the graph before the first request
InitAgent ==
  /\ messages = <<>>
  /\ action_needed = None
  /\ calendar_check_result = None
  /\ pc = "idle"
  /\ exception = None
  /\ response = NoResponse
  /\ turns = 0
  /\ nDecide = 0
  /\ nToolCalls = 0
  /\ nodes = <<>>
  /\ dispatched = <<>>

\* ---- values of the variables of SpecPair and SpecThreads
\* the context fields of an AgentState that a caller of the graph may pass
\* an attendees field: attendees: List[str] | None
NoList == [given |-> FALSE, list |-> <<>>]
ListOf(l) == [given |-> TRUE, list |-> l]

\* the slot fields of the inputs of the example turns (agent.py:154, 159, 164)
NoSlots ==
  [summary |-> None, start_time |-> None, end_time |-> None,
   attendees |-> NoList]
SlotValues ==
  {NoSlots,
   [summary |-> "Call", start_time |-> "2025-06-29T10:00:00+05:30",
    end_time |-> "2025-06-29T11:00:00+05:30", attendees |-> ListOf(<<>>)],
   [summary |-> "Call", start_time |-> "2025-06-29T10:00:00+05:30",
    end_time |-> "2025-06-29T11:00:00+05:30",
    attendees |-> ListOf(<<"test@example.com">>)]}

\* an input of the graph apart from its messages
Context(a, c, slots) ==
  [action_needed |-> a, calendar_check_result |-> c,
   summary |-> slots.summary, start_time |-> slots.start_time,
   end_time |-> slots.end_time, attendees |-> slots.attendees]

NoContext == Context(None, None, NoSlots)
Contexts ==
  {Context(a, c, slots) :
     a \in {None, "propose_slots", "ask_for_new_time", "confirm_booking"},
     c \in {None, FREE_TEXT},
     slots \in SlotValues}

\* the state a run of the graph starts from
InputState(msgs, ctx) ==
  [messages |-> msgs,
   action_needed |-> ctx.action_needed,
   calendar_check_result |-> ctx.calendar_check_result,
   summary |-> ctx.summary, start_time |-> ctx.start_time,
   end_time |-> ctx.end_time, attendees |-> ctx.attendees]

\* one run of the graph: its state, the node it is at, the exception it ended on
IdleRun ==
  [state |-> InputState(<<>>, NoContext), pc |-> "idle", exception |-> None]

IdlePair == [a |-> IdleRun, b |-> IdleRun, nDecide |-> 0, nToolCalls |-> 0]

\* thread_id = user_id
ThreadIds == {"X", "Y"}
Requests == 1..MaxRequests

\* a request slot no request has used yet
NoRequest ==
  [thread |-> None, text |-> "", pc |-> "none", channels |-> <<>>,
   reply |-> NoResponse, inflight |-> {}]

Init ==
  /\ InitAgent
  /\ pair = IdlePair
  /\ store = [t \in ThreadIds |-> <<>>]
  /\ reqs = [r \in Requests |-> NoRequest]

\* ------------------------------------------------------------ agent.py
should_continue(msgs) ==
  IF Last(msgs).has_tool_calls THEN "continue" ELSE "end"

\* the conditional edge of call_model and the edge call_tool -> call_model
NextNode(decision) == IF decision = "continue" THEN "call_tool" ELSE "END"

\* Route that also consults the context: a pending confirmation stops the turn
RouteByContext(state) ==
  IF state.action_needed = "confirm_booking" THEN "END"
  ELSE NextNode(should_continue(state.messages))

\* the node that follows call_model in the given state
Route(state) == NextNode(should_continue(state.messages))

\* call_model: the update the node returns for the oracle's response
call_model(state, llm_response) == [messages |-> <<llm_response>>]

\* call_model, the oracle answering
CallModel ==
  /\ pc = "call_model"
  /\ nDecide < MaxDecide
  /\ \E c \in Texts, present \in BOOLEAN,
        calls \in Batches(MaxToolCalls - nToolCalls) :
       /\ ~present => calls = <<>>
       /\ messages' =
            operator_add(messages,
                         call_model(AgentState, AIMessage(c, present, calls)).messages)
       /\ nToolCalls' = nToolCalls + Len(calls)
  /\ pc' = Route([AgentState EXCEPT !.messages = messages'])
  /\ nDecide' = nDecide + 1
  /\ nodes' = Append(nodes, "call_model")
  /\ UNCHANGED <<action_needed, calendar_check_result, exception, response,
                 turns, dispatched>>
  /\ UNCHANGED <<pair, store, reqs>>

\* CallModelFail with the failure retried in place instead of raised
CallModelFailRetried ==
  /\ pc = "call_model"
  /\ nDecide < MaxDecide
  /\ pc' = "call_model"
  /\ exception' = "OracleFailure"
  /\ nDecide' = nDecide + 1
  /\ nodes' = Append(nodes, "call_model")
  /\ UNCHANGED <<messages, action_needed, calendar_check_result, response,
                 turns, nToolCalls, dispatched>>
  /\ UNCHANGED <<pair, store, reqs>>

\* call_model, the oracle call raising: nothing catches it in the graph
CallModelFail ==
  /\ pc = "call_model"
  /\ nDecide < MaxDecide
  /\ pc' = "raised"
  /\ exception' = "OracleFailure"
  /\ nDecide' = nDecide + 1
  /\ nodes' = Append(nodes, "call_model")
  /\ UNCHANGED <<messages, action_needed, calendar_check_result, response,
                 turns, nToolCalls, dispatched>>
  /\ UNCHANGED <<pair, store, reqs>>

\* the value of state['action_needed'] after the first k calls of the loop
RECURSIVE FoldActionNeeded(_, _, _, _)
FoldActionNeeded(calls, results, k, start) ==
  IF k = 0 THEN start
  ELSE LET prev == FoldActionNeeded(calls, results, k - 1, start)
           name == calls[k].name
       IN IF name = "check_availability"
            THEN (IF HasFree(results[k].value) THEN "propose_slots"
                  ELSE "ask_for_new_time")
          ELSE IF name = "book_meeting" THEN "confirm_booking"
          ELSE prev

\* Outputs in completion order when later calls finish first: reversed
OutputsReversed(calls, results) ==
  [i \in 1..Len(calls) |->
     ToolMessage(calls[Len(calls) + 1 - i].id,
                 json_dumps(results[Len(calls) + 1 - i].value))]

\* Outputs with every ToolMessage tagged with the id of the first call
OutputsFirstId(calls, results) ==
  [i \in 1..Len(calls) |->
     ToolMessage(calls[1].id, json_dumps(results[i].value))]

\* the ToolMessages call_tool builds, one per call, in the loop's order
Outputs(calls, results) ==
  [i \in 1..Len(calls) |->
     ToolMessage(calls[i].id, json_dumps(results[i].value))]

\* the answers of the environment to the calls of a batch, one per call
EnvVectors(tool_calls) ==
  {envs \in [1..Len(tool_calls) -> UNION {Envs(n) : n \in ActionNames}] :
     \A i \in 1..Len(tool_calls) : envs[i] \in Envs(tool_calls[i].name)}

\* call_tool: the loop over the batch of the last message; what it returns,
\* or the exception of the first raising call, and the calls it got to
call_tool(state, envs) ==
  LET tool_calls == Last(state.messages).tool_calls
      results == [i \in 1..Len(tool_calls) |->
                    tool_executor_invoke(tool_calls[i].name, envs[i])]
      failing == {i \in 1..Len(tool_calls) : results[i].raised}
      first == CHOOSE i \in failing : \A j \in failing : i <= j
  IN IF failing = {}
       THEN [raised |-> FALSE, exception |-> None,
             messages |-> Outputs(tool_calls, results),
             action_needed |-> FoldActionNeeded(tool_calls, results,
                                                Len(tool_calls),
                                                state.action_needed),
             invoked |-> Len(tool_calls)]
     ELSE [raised |-> TRUE, exception |-> results[first].value,
           messages |-> <<>>, action_needed |-> state.action_needed,
           invoked |-> first]

\* Invocations with the last call dispatched a second time
InvocationsRetried(k, n) ==
  [i \in 1..n |-> <<k, i>>] \o (IF n = 0 THEN <<>> ELSE << <<k, n>> >>)

\* the tool invocations of one run of the loop: calls 1..n of the message at k
Invocations(k, n) == [i \in 1..n |-> <<k, i>>]

\* the call_tool node: on return its update is applied (messages through the
\* reducer); on an exception the graph stops and the node writes nothing
CallTool ==
  /\ pc = "call_tool"
  /\ \E envs \in EnvVectors(Last(messages).tool_calls) :
       LET r == call_tool(AgentState, envs)
       IN /\ IF ~r.raised
               THEN /\ messages' = operator_add(messages, r.messages)
                    /\ action_needed' = r.action_needed
                    /\ pc' = "call_model"
                    /\ UNCHANGED exception
               ELSE /\ pc' = "raised"
                    /\ exception' = r.exception
                    /\ UNCHANGED <<messages, action_needed>>
          /\ dispatched' = dispatched \o Invocations(Len(messages), r.invoked)
  /\ nodes' = Append(nodes, "call_tool")
  /\ UNCHANGED <<calendar_check_result, response, turns, nDecide, nToolCalls>>
  /\ UNCHANGED <<pair, store, reqs>>

\* ------------------------------------------------------------- main.py
\* LastAIIndex searching from the front: the first AIMessage among msgs[1..k]
FirstAIIndex(msgs, k) ==
  LET ais == {m \in 1..k : msgs[m].type = "ai"}
  IN IF ais = {} THEN 0 ELSE CHOOSE m \in ais : \A n \in ais : m <= n

\* the last AIMessage of the final state, searched from the end
RECURSIVE LastAIIndex(_, _)
LastAIIndex(msgs, k) ==
  IF k = 0 THEN 0
  ELSE IF msgs[k].type = "ai" THEN k
  ELSE LastAIIndex(msgs, k - 1)

\* chat_endpoint, up to the start of the graph
ChatBegin ==
  /\ pc = "idle"
  /\ turns < MaxTurns
  /\ \E message \in UserTexts : messages' = <<HumanMessage(message)>>
  /\ action_needed' = None
  /\ calendar_check_result' = None
  /\ pc' = "call_model"
  /\ exception' = None
  /\ response' = NoResponse
  /\ turns' = turns + 1
  /\ nDecide' = 0
  /\ nToolCalls' = 0
  /\ nodes' = <<>>
  /\ dispatched' = <<>>
  /\ UNCHANGED <<pair, store, reqs>>

\* ChatResponse without the except clause: the exception leaves the endpoint
ChatResponseUncaught(stopped, msgs, exc) ==
  IF stopped = "raised"
    THEN [kind |-> "unhandled", text |-> exc]
  ELSE IF LastAIIndex(msgs, Len(msgs)) # 0
    THEN [kind |-> "reply", text |-> msgs[LastAIIndex(msgs, Len(msgs))].content]
  ELSE [kind |-> "no_direct_message",
        text |-> "The agent did not return a direct message. This might be a tool call."]

\* what chat_endpoint hands the caller once the graph has stopped
ChatResponse(stopped, msgs, exc) ==
  IF stopped = "raised"
    THEN [kind |-> "http_500", text |-> exc]
  ELSE IF LastAIIndex(msgs, Len(msgs)) # 0
    THEN [kind |-> "reply", text |-> msgs[LastAIIndex(msgs, Len(msgs))].content]
  ELSE [kind |-> "no_direct_message",
        text |-> "The agent did not return a direct message. This might be a tool call."]

\* chat_endpoint, from the end of the graph to the response
ChatEnd ==
  /\ pc \in {"END", "raised"}
  /\ response' = ChatResponse(pc, messages, exception)
  /\ pc' = "idle"
  /\ UNCHANGED <<messages, action_needed, calendar_check_result, exception,
                 turns, nDecide, nToolCalls, nodes, dispatched>>
  /\ UNCHANGED <<pair, store, reqs>>

Next ==
  \/ ChatBegin
  \/ CallModel
  \/ CallModelFail
  \/ CallTool
  \/ ChatEnd

Spec == Init /\ [][Next]_vars

\* ============================================================== SpecPair
\* Two runs of the compiled graph (app.stream(inputs), agent.py:154-166; the
\* endpoint passes no context field, main.py:103-107) from the same message
\* with different context fields, fed the same oracle and tool answers.

\* app.stream / astream_events: the graph starts at call_model (START edge)
StartRun(message, ctx) ==
  [state |-> InputState(<<HumanMessage(message)>>, ctx),
   pc |-> "call_model", exception |-> None]

\* an exception leaves the node: the run stops with it
RunRaise(run, exc) == [run EXCEPT !.pc = "raised", !.exception = exc]

\* the call_model node and its conditional edge, applied to a run
RunCallModel(run, llm_response) ==
  LET after == [run.state EXCEPT
                  !.messages = operator_add(@, call_model(run.state,
                                                          llm_response).messages)]
  IN [run EXCEPT !.state = after, !.pc = Route(after)]

\* RunCallTool that also clears the proposed times once it has run a batch
RunCallToolClearingTimes(run, envs) ==
  LET r == call_tool(run.state, envs)
  IN IF r.raised THEN RunRaise(run, r.exception)
     ELSE [run EXCEPT !.state.messages = operator_add(@, r.messages),
                      !.state.action_needed = r.action_needed,
                      !.state.start_time = None,
                      !.state.end_time = None,
                      !.pc = "call_model"]

\* the call_tool node and its edge back to call_model, applied to a run
RunCallTool(run, envs) ==
  LET r == call_tool(run.state, envs)
  IN IF r.raised THEN RunRaise(run, r.exception)
     ELSE [run EXCEPT !.state.messages = operator_add(@, r.messages),
                      !.state.action_needed = r.action_needed,
                      !.pc = "call_model"]

PairBegin ==
  /\ pair.a.pc = "idle"
  /\ \E message \in UserTexts, ctx \in Contexts :
       pair' = [pair EXCEPT !.a = StartRun(message, NoContext),
                            !.b = StartRun(message, ctx)]
  /\ UNCHANGED <<agentVars, store, reqs>>

PairCallModel ==
  /\ pair.a.pc = "call_model" /\ pair.b.pc = "call_model"
  /\ pair.nDecide < MaxDecide
  /\ \E c \in Texts, present \in BOOLEAN,
        calls \in Batches(MaxToolCalls - pair.nToolCalls) :
       /\ ~present => calls = <<>>
       /\ pair' = [a |-> RunCallModel(pair.a, AIMessage(c, present, calls)),
                   b |-> RunCallModel(pair.b, AIMessage(c, present, calls)),
                   nDecide |-> pair.nDecide + 1,
                   nToolCalls |-> pair.nToolCalls + Len(calls)]
  /\ UNCHANGED <<agentVars, store, reqs>>

PairCallModelFail ==
  /\ pair.a.pc = "call_model" /\ pair.b.pc = "call_model"
  /\ pair.nDecide < MaxDecide
  /\ pair' = [pair EXCEPT !.a = RunRaise(pair.a, "OracleFailure"),
                          !.b = RunRaise(pair.b, "OracleFailure"),
                          !.nDecide = @ + 1]
  /\ UNCHANGED <<agentVars, store, reqs>>

PairCallTool ==
  /\ pair.a.pc = "call_tool" /\ pair.b.pc = "call_tool"
  /\ \E envs \in EnvVectors(Last(pair.a.state.messages).tool_calls) :
       pair' = [pair EXCEPT !.a = RunCallTool(pair.a, envs),
                            !.b = RunCallTool(pair.b, envs)]
  /\ UNCHANGED <<agentVars, store, reqs>>

NextPair ==
  \/ PairBegin
  \/ PairCallModel
  \/ PairCallModelFail
  \/ PairCallTool

SpecPair == Init /\ [][NextPair]_vars

\* =========================================================== SpecThreads
\* chat_endpoint as main.py wires it: langgraph_app is the graph of
\* main.py:26-42 (one node, placeholder_agent_logic) compiled with a
\* checkpointer; requests are coroutines that interleave at every await.

\* what the user of a thread may send
TextsOf(t) ==
  IF t = "X" THEN {"x: book a call", "x: tomorrow 10am"}
  ELSE {"y: am I free?", "y: cancel"}

\* StoreKey with one slot for every thread
StoreKeyShared(thread_id) == "X"

\* config = {"configurable": {"thread_id": thread_id}}: the checkpoint's key
StoreKey(thread_id) == thread_id

\* MessagesState.messages: List[BaseMessage], no reducer: a write replaces it
last_value(old, new) == new

placeholder_agent_logic(state_messages) ==
  [messages |->
     <<AIMessage("This is a placeholder response to: '"
                   \o Last(state_messages).content \o "'", FALSE, <<>>)>>]

InFlight == {q \in Requests : reqs[q].pc \notin {"none", "done"}}

\* a /chat request arrives (requests are numbered in their order of arrival)
Receive(r) ==
  /\ reqs[r].pc = "none"
  /\ IF r = 1 THEN TRUE ELSE reqs[r - 1].pc # "none"
  /\ \E user_id \in ThreadIds :
       \E message \in TextsOf(user_id) :
         reqs' = [reqs EXCEPT ![r] =
                    [thread |-> user_id, text |-> message, pc |-> "load",
                     channels |-> <<>>, reply |-> NoResponse,
                     inflight |-> InFlight]]
  /\ UNCHANGED <<agentVars, pair, store>>

\* the run reads the thread's checkpoint
LoadCheckpoint(r) ==
  /\ reqs[r].pc = "load"
  /\ reqs' = [reqs EXCEPT ![r].channels = store[StoreKey(reqs[r].thread)],
                          ![r].pc = "input"]
  /\ UNCHANGED <<agentVars, pair, store>>

\* the input {"messages": [input_message]} is written and checkpointed
WriteInput(r) ==
  /\ reqs[r].pc = "input"
  /\ LET after == last_value(reqs[r].channels, <<HumanMessage(reqs[r].text)>>)
     IN /\ reqs' = [reqs EXCEPT ![r].channels = after, ![r].pc = "agent"]
        /\ store' = [store EXCEPT ![StoreKey(reqs[r].thread)] = after]
  /\ UNCHANGED <<agentVars, pair>>

\* the node "agent" runs; its update is written and checkpointed
RunAgent(r) ==
  /\ reqs[r].pc = "agent"
  /\ LET after == last_value(reqs[r].channels,
                             placeholder_agent_logic(reqs[r].channels).messages)
     IN /\ reqs' = [reqs EXCEPT ![r].channels = after, ![r].pc = "respond"]
        /\ store' = [store EXCEPT ![StoreKey(reqs[r].thread)] = after]
  /\ UNCHANGED <<agentVars, pair>>

\* chat_endpoint builds the response from the final state
Respond(r) ==
  /\ reqs[r].pc = "respond"
  /\ reqs' = [reqs EXCEPT ![r].reply = ChatResponse("END", reqs[r].channels, None),
                          ![r].pc = "done"]
  /\ UNCHANGED <<agentVars, pair, store>>

NextThreads ==
  \E r \in Requests :
    \/ Receive(r)
    \/ LoadCheckpoint(r)
    \/ WriteInput(r)
    \/ RunAgent(r)
    \/ Respond(r)

SpecThreads == Init /\ [][NextThreads]_vars

\* ================================================================ claims
AIIndices(msgs) == {k \in DOMAIN msgs : msgs[k].type = "ai"}
ToolIndices(msgs) == {j \in DOMAIN msgs : msgs[j].type = "tool"}

\* the index of the first AIMessage after position k, or Len(msgs) + 1
NextAI(msgs, k) ==
  LET later == {m \in AIIndices(msgs) : m > k}
  IN IF later = {} THEN Len(msgs) + 1
     ELSE CHOOSE m \in later : \A n \in later : m <= n

\* the ToolMessages between the AIMessage at k and the next AIMessage
ResultsOf(msgs, k) == {j \in ToolIndices(msgs) : k < j /\ j < NextAI(msgs, k)}

\* the AIMessage a ToolMessage at j answers: the nearest one before it
OwnerOf(msgs, j) ==
  LET earlier == {k \in AIIndices(msgs) : k < j}
  IN IF earlier = {} THEN 0
     ELSE CHOOSE k \in earlier : \A n \in earlier : n <= k

Responded == response # NoResponse
ToolExceptions == ((CheckFaults \cup CreateFaults) \ {"none"})
LastNode == IF nodes = <<>> THEN None ELSE Last(nodes)
\* the batch the Execution Node ran last, when it ran last in the turn
LastBatch == messages[LastAIIndex(messages, Len(messages))].tool_calls

\* C1: once control is back with the caller, every AIMessage that carries
\* tool calls is followed (before the next AIMessage) by exactly one
\* ToolMessage per tool call, carrying that call's id.
C1_EveryRequestAnswered ==
  Responded =>
    \A k \in AIIndices(messages) :
      \A i \in DOMAIN messages[k].tool_calls :
        Cardinality({j \in ResultsOf(messages, k) :
                       messages[j].tool_call_id = messages[k].tool_calls[i].id}) = 1

\* C2: the loop halts only after the Decision Node and exactly when the
\* AIMessage just produced has no requested actions; it goes to the Execution
\* Node only with requested actions; a turn never ends on an AIMessage with
\* requested actions as the last message.
C2_HaltsExactlyOnEmptyRequest ==
  /\ pc = "END" => /\ LastNode = "call_model"
                   /\ Last(messages).type = "ai"
                   /\ Last(messages).tool_calls = <<>>
  /\ pc = "call_tool" => Last(messages).tool_calls # <<>>
  /\ Responded => ~(Last(messages).type = "ai" /\ Last(messages).tool_calls # <<>>)

\* C3: the Execution Node never runs twice in a row and no two AIMessages of
\* a turn are adjacent in the message sequence (a result lies between them).
C3_StrictAlternation ==
  /\ \A n \in 1..(Len(nodes) - 1) :
       ~(nodes[n] = "call_tool" /\ nodes[n + 1] = "call_tool")
  /\ \A k \in 1..(Len(messages) - 1) :
       ~(messages[k].type = "ai" /\ messages[k + 1].type = "ai")

\* C4 as stated: every ToolMessage has exactly one tool call with its id
\* anywhere earlier in the sequence, and no tool call has more than one
\* ToolMessage with its id anywhere later.
C4_OneRequestPerResultGlobally ==
  /\ \A j \in ToolIndices(messages) :
       Cardinality({<<k, i>> \in AIIndices(messages) \X (1..MaxId) :
                      /\ k < j
                      /\ i \in DOMAIN messages[k].tool_calls
                      /\ messages[k].tool_calls[i].id = messages[j].tool_call_id}) = 1
  /\ \A k \in AIIndices(messages) :
       \A i \in DOMAIN messages[k].tool_calls :
         Cardinality({j \in ToolIndices(messages) :
                        /\ j > k
                        /\ messages[j].tool_call_id = messages[k].tool_calls[i].id}) <= 1

\* C4 amended: every ToolMessage has exactly one tool call with its id in the
\* AIMessage it answers (the nearest one before it), and no tool call has more
\* than one ToolMessage with its id before the next AIMessage.
C4_OneRequestPerResultInBatch ==
  /\ \A j \in ToolIndices(messages) :
       /\ OwnerOf(messages, j) # 0
       /\ Cardinality({i \in DOMAIN messages[OwnerOf(messages, j)].tool_calls :
                         messages[OwnerOf(messages, j)].tool_calls[i].id
                           = messages[j].tool_call_id}) = 1
  /\ \A k \in AIIndices(messages) :
       \A i \in DOMAIN messages[k].tool_calls :
         Cardinality({j \in ResultsOf(messages, k) :
                        messages[j].tool_call_id = messages[k].tool_calls[i].id}) <= 1

\* C4 witness: an id requested by two AIMessages of one turn, both answered
C4_Witness_IdReused ==
  \E j1, j2 \in ToolIndices(messages) :
    /\ j1 < j2
    /\ messages[j1].tool_call_id = messages[j2].tool_call_id
    /\ OwnerOf(messages, j1) # OwnerOf(messages, j2)

\* C5: when the Execution Node has run a batch of sibling requests, it has not
\* raised and the batch has one result per request: the invalid-tool message
\* for an unknown action, a tool result for every other request.
C5_PartialFailureReported ==
  (LastNode = "call_tool" /\ Len(LastBatch) >= 2) =>
    /\ exception \notin ToolExceptions
    /\ LET k == LastAIIndex(messages, Len(messages))
       IN /\ Cardinality(ResultsOf(messages, k)) = Len(LastBatch)
          /\ \A i \in DOMAIN LastBatch :
               LastBatch[i].name \in UnknownNames <=>
                 messages[k + i].content = json_dumps(INVALID_TOOL_MSG)

\* C6: when the batch the Execution Node ran holds an action outside the tool
\* registry, a result message with the invalid-tool indication and that
\* action's id follows, and the turn has not ended with an exception.
C6_UnknownActionReported ==
  (LastNode = "call_tool" /\ \E i \in DOMAIN LastBatch :
                               LastBatch[i].name \in UnknownNames) =>
    /\ exception = None
    /\ \A i \in DOMAIN LastBatch :
         LastBatch[i].name \in UnknownNames =>
           \E j \in ResultsOf(messages, LastAIIndex(messages, Len(messages))) :
             /\ messages[j].tool_call_id = LastBatch[i].id
             /\ messages[j].content = json_dumps(INVALID_TOOL_MSG)

\* C7: no failure of a tool implementation leaves the Execution Node as an
\* exception: none ever ends the graph.
C7_ToolFailuresCaptured ==
  exception \notin ToolExceptions

\* C8: whenever the chat operation has answered, the answer is the text of
\* the final AIMessage of a graph that ended without exception, or an HTTP 500
\* that carries the exception which ended the graph.
C8_ReplyOrFailure ==
  Responded =>
    \/ /\ response.kind = "reply"
       /\ exception = None
       /\ Last(messages).type = "ai"
       /\ response.text = Last(messages).content
    \/ /\ response.kind = "http_500"
       /\ exception # None
       /\ response.text = exception

\* C8 witness: a turn ended by a tool exception was answered with HTTP 500
C8_Witness_ToolExceptionAnswered ==
  /\ Responded
  /\ exception \in ToolExceptions
  /\ response.kind = "http_500"

\* C9: once the oracle call has failed, no node runs again in the turn (the
\* failing call is the last node run), no AIMessage stands for it, and the
\* answer to the caller, when given, is the failure and not a reply.
C9_OracleFailureSurfaces ==
  exception = "OracleFailure" =>
    /\ pc \in {"raised", "idle"}
    /\ LastNode = "call_model"
    /\ Cardinality(AIIndices(messages)) = nDecide - 1
    /\ Responded => response.kind = "http_500"

\* C9 witness: the oracle failed on its second call of a turn, after a round
\* of tool calls, and the caller got the failure
C9_Witness_SecondCallFailed ==
  /\ exception = "OracleFailure"
  /\ nDecide = 2
  /\ ToolIndices(messages) # {}
  /\ Responded
  /\ response.kind = "http_500"

\* C10: when the first or the second AIMessage of the turn has no requested
\* actions and neither the oracle nor a tool has failed, the turn has at most
\* two Decision Node invocations.
C10_HaltsWithinTwoDecisions ==
  LET ais == AIIndices(messages)
      upToSecond == {k \in ais : Cardinality({m \in ais : m <= k}) <= 2}
  IN (exception = None /\ \E k \in upToSecond : messages[k].tool_calls = <<>>) =>
       nDecide <= 2

\* -------------------------------------------------------------- C11..C20
ExecCycles == Cardinality({n \in DOMAIN nodes : nodes[n] = "call_tool"})

IsPrefix(a, b) == Len(a) <= Len(b) /\ \A i \in DOMAIN a : a[i] = b[i]

\* the number of Executing cycles the explored horizon leaves to an oracle
\* that requests an action on every invocation
Horizon == IF MaxDecide < MaxToolCalls THEN MaxDecide ELSE MaxToolCalls

C12_DispatchedAtMostOnce ==
  /\ \A a, b \in DOMAIN dispatched : a # b => dispatched[a] # dispatched[b]
  /\ \A a \in DOMAIN dispatched :
       /\ dispatched[a][1] \in AIIndices(messages)
       /\ dispatched[a][2] \in DOMAIN messages[dispatched[a][1]].tool_calls

\* C12 witness: a second Executing cycle whose event creation failed; the
\* turn ended on it with both requests dispatched
C12_Witness_CreationFailedOnSecondCycle ==
  /\ exception \in ToolExceptions
  /\ Len(dispatched) = 2
  /\ dispatched[1][1] # dispatched[2][1]
  /\ messages[dispatched[2][1]].tool_calls[dispatched[2][2]].name = "book_meeting"

\* C13: after the Execution Node has run a batch with an availability check,
\* calendar_check_result of the state carried forward is the text that the
\* (last) availability check of the batch returned.
C13_CheckResultRecorded ==
  LET k == LastAIIndex(messages, Len(messages))
      checks == {i \in DOMAIN LastBatch : LastBatch[i].name = "check_availability"}
      last == CHOOSE i \in checks : \A j \in checks : j <= i
  IN (LastNode = "call_tool" /\ exception = None /\ checks # {}) =>
       json_dumps(calendar_check_result) = messages[k + last].content

\* a result text of the availability check that reports a conflict
Conflict(result) == result = BUSY_TEXT

\* C14: after a batch that ends with an availability check, action_needed is
\* the alternate-slots value (ask_for_new_time) exactly when the result reports
\* a conflict and the booking value (propose_slots) otherwise, whichever of its
\* texts the check returned.
C14_NextActionFollowsConflict ==
  LET k == LastAIIndex(messages, Len(messages))
      n == Len(LastBatch)
  IN (LastNode = "call_tool" /\ exception = None /\ n > 0
        /\ LastBatch[n].name = "check_availability") =>
       \A result \in {FREE_TEXT, BUSY_TEXT, CHECK_ERROR_CALENDARS,
                      CHECK_ERROR_FREEBUSY} :
         messages[k + n].content = json_dumps(result) =>
           action_needed = (IF Conflict(result) THEN "ask_for_new_time"
                            ELSE "propose_slots")

\* C18: a new turn starts from the message sequence the previous turn ended
\* with, the new HumanMessage appended.
C18_HistoryCarriedAcrossTurns ==
  [][turns' # turns =>
       \E message \in UserTexts :
         messages' = Append(messages, HumanMessage(message))]_vars

\* C19: a reply handed to the caller is the content of the AIMessage that the
\* last call_model of the turn appended, which carries no requested action
\* and ended the loop.
C19_ReplyIsFinalAssistantText ==
  response.kind = "reply" =>
    /\ LastNode = "call_model"
    /\ Last(messages).type = "ai"
    /\ ~Last(messages).has_tool_calls
    /\ Last(messages).tool_calls = <<>>
    /\ response.text = Last(messages).content

\* C19 witness: a reply after a round of tool calls, whose text differs from
\* the text of the first AIMessage of the turn
C19_Witness_ReplyAfterToolRound ==
  /\ response.kind = "reply"
  /\ ToolIndices(messages) # {}
  /\ \E k \in AIIndices(messages) : messages[k].content # response.text

\* C20: every step of call_model or call_tool leaves the message sequence it
\* found as a prefix of the message sequence it leaves.
C20_AppendOnlyWithinTurn ==
  [][(turns' = turns /\ nodes' # nodes) => IsPrefix(messages, messages')]_vars

\* C20 witness: a turn that has grown by a request, its results and a reply
C20_Witness_GrownTranscript ==
  /\ Cardinality(AIIndices(messages)) >= 2
  /\ Cardinality(ToolIndices(messages)) >= 2
  /\ messages[1].type = "human"

\* ---- C15 (SpecPair)
\* C15: two runs from the same message that get the same oracle and tool
\* answers but differ in the context fields action_needed and
\* calendar_check_result (run a has them all absent) are at the same node,
\* hold the same message sequence and ended on the same exception, after
\* every step.
C15_ContextDoesNotSteer ==
  /\ pair.a.pc = pair.b.pc
  /\ pair.a.state.messages = pair.b.state.messages
  /\ pair.a.exception = pair.b.exception

\* both runs ended after a tool round, from different contexts, and the
\* contexts still differ at the end
C15_Witness_DifferentContextsSameTranscript ==
  /\ pair.a.pc = "END" /\ pair.b.pc = "END"
  /\ \E i \in DOMAIN pair.a.state.messages :
       pair.a.state.messages[i].type = "tool"
  /\ pair.a.state.action_needed # pair.b.state.action_needed
  /\ pair.a.state.calendar_check_result # pair.b.state.calendar_check_result

\* ---- C16, C17 (SpecThreads)
Arrived(t) == {r \in Requests : reqs[r].pc # "none" /\ reqs[r].thread = t}
Overlapped(r1, r2) == r1 \in reqs[r2].inflight \/ r2 \in reqs[r1].inflight

\* the messages one turn adds to a thread: the user's and the reply to it
TurnOf(r) ==
  <<HumanMessage(reqs[r].text)>>
    \o placeholder_agent_logic(<<HumanMessage(reqs[r].text)>>).messages

\* between its read of the checkpoint and its last write of it
InCriticalSection(r) == reqs[r].pc \in {"input", "agent"}

\* C16: two requests of the same thread are never both between their read
\* and their last write of the thread's state, and once two overlapping
\* requests (the only ones of their thread) are both answered, the stored
\* state is the two turns one after the other in some order.
C16_SameThreadTurnsSerialized ==
  \A r1, r2 \in Requests :
    (r1 # r2 /\ reqs[r1].pc # "none" /\ reqs[r2].pc # "none"
      /\ reqs[r1].thread = reqs[r2].thread) =>
      /\ ~(InCriticalSection(r1) /\ InCriticalSection(r2))
      /\ (/\ Overlapped(r1, r2)
          /\ reqs[r1].pc = "done" /\ reqs[r2].pc = "done"
          /\ Arrived(reqs[r1].thread) = {r1, r2})
         => store[reqs[r1].thread] \in {TurnOf(r1) \o TurnOf(r2),
                                        TurnOf(r2) \o TurnOf(r1)}

\* the contents that belong to thread t: its user's texts and the replies to them
ContentsOf(t) ==
  TextsOf(t) \cup
    {placeholder_agent_logic(<<HumanMessage(c)>>).messages[1].content :
       c \in TextsOf(t)}

\* the requests that take a step
Stepping == {r \in Requests : reqs'[r] # reqs[r]}

\* C17: a step of a request of thread X leaves the stored state of every
\* other thread unchanged, and neither what the node of a request is given
\* nor the reply the request gets holds a content of another thread.
C17_ThreadsIsolated ==
  /\ [][\A y \in ThreadIds :
          store'[y] # store[y] => \A r \in Stepping : reqs[r].thread = y]_vars
  /\ [](\A r \in Requests :
          /\ reqs[r].pc \in {"agent", "respond", "done"} =>
               \A i \in DOMAIN reqs[r].channels :
                 reqs[r].channels[i].content \in ContentsOf(reqs[r].thread)
          /\ reqs[r].pc = "done" =>
               /\ reqs[r].reply.kind = "reply"
               /\ reqs[r].reply.text \in ContentsOf(reqs[r].thread))

\* two overlapping requests of different threads are both answered and both
\* threads have a stored state
C17_Witness_ConcurrentThreadsAnswered ==
  \E r1, r2 \in Requests :
    /\ reqs[r1].thread = "X" /\ reqs[r2].thread = "Y"
    /\ Overlapped(r1, r2)
    /\ reqs[r1].pc = "done" /\ reqs[r2].pc = "done"
    /\ store["X"] # <<>> /\ store["Y"] # <<>>

\* ---- C21 (Spec)
\* C21: the ToolMessages that follow an AIMessage (before the next
\* AIMessage) are in the order of its tool calls: the i-th of them carries
\* the id of the i-th tool call, and there are no more of them than calls.
C21_ResultsInRequestOrder ==
  \A k \in AIIndices(messages) :
    \A j \in ResultsOf(messages, k) :
      /\ j - k \in DOMAIN messages[k].tool_calls
      /\ messages[j].tool_call_id = messages[k].tool_calls[j - k].id

\* a batch of two tool calls with different ids has been answered
C21_Witness_TwoCallsAnswered ==
  \E k \in AIIndices(messages) :
    /\ Len(messages[k].tool_calls) = 2
    /\ messages[k].tool_calls[1].id # messages[k].tool_calls[2].id
    /\ ResultsOf(messages, k) = {k + 1, k + 2}

\* ---- C22 (SpecPair)
SlotsOf(state) ==
  [summary |-> state.summary, start_time |-> state.start_time,
   end_time |-> state.end_time, attendees |-> state.attendees]

\* C22: a step of a started run leaves summary, start_time, end_time and
\* attendees as they were, and a step of call_model leaves action_needed and
\* calendar_check_result as they were too; for a run started with the slot
\* fields absent and for a run started with any of the example values.
C22_SlotFieldsUnchanged ==
  [][pair.a.pc # "idle" =>
       /\ SlotsOf(pair'.a.state) = SlotsOf(pair.a.state)
       /\ SlotsOf(pair'.b.state) = SlotsOf(pair.b.state)
       /\ pair.b.pc = "call_model" =>
            /\ pair'.b.state.action_needed = pair.b.state.action_needed
            /\ pair'.b.state.calendar_check_result
                 = pair.b.state.calendar_check_result]_vars

\* a run started with times and an attendee has ended after a tool round
\* that changed action_needed
C22_Witness_SlotsKeptThroughToolRound ==
  /\ pair.b.pc = "END"
  /\ pair.b.state.start_time # None
  /\ pair.b.state.attendees.list # <<>>
  /\ pair.b.state.action_needed = "confirm_booking"
  /\ \E k \in AIIndices(pair.b.state.messages) :
       /\ ResultsOf(pair.b.state.messages, k) # {}
       /\ \E i \in DOMAIN pair.b.state.messages[k].tool_calls :
            pair.b.state.messages[k].tool_calls[i].name = "book_meeting"

====
